---- MODULE Spec2Model ----
(***************************************************************************)
(* Model of apps/annotation/python/claude_bridge.py: the bridge that reads *)
(* a JSON payload from standard input, calls the remote text-generation    *)
(* capability once, extracts a JSON annotation from the reply text and     *)
(* writes a JSON result to standard output.                                *)
(*                                                                         *)
(* A character is its Unicode code point and a string is a sequence of     *)
(* code points, so that every character of a Python str has a value here.  *)
(* Str(<<"a", "b">>) is the string "ab".                                    *)
(*                                                                         *)
(* JSON values are the records [t |-> kind, v |-> content]:                *)
(*   "obj"   v = sequence of [k |-> key string, v |-> value], keys unique, *)
(*           in insertion order (a Python dict)                            *)
(*   "arr"   v = sequence of values      "str"  v = string                 *)
(*   "int"   v = [neg, digits]: sign and decimal digits, most significant  *)
(*           first, of a Python int of any size                            *)
(*   "float" v = [kind, neg, digits, exp]: kind "finite" is the double     *)
(*           d.ddd * 10^exp, by float.__repr__'s digits; kind "inf" and    *)
(*           "nan" are the infinities and NaN                              *)
(*   "bool"  v = BOOLEAN                 "null" v = <<>>                   *)
(*   "opaque" v = type name: a Python object json cannot serialise         *)
(* Two values are equal here when they have the same type and content;     *)
(* Python's == also equates 1, 1.0 and True, and tells NaN from itself.    *)
(***************************************************************************)
EXTENDS Integers, Sequences, FiniteSets, TLC

VARIABLES pc, stdin, api_key, importable, recursion_limit, payload,
          request, calls, response, text, annotation, stdout, stderr,
          exit_status, exc

vars == <<pc, stdin, api_key, importable, recursion_limit, payload,
          request, calls, response, text, annotation, stdout, stderr,
          exit_status, exc>>

-----------------------------------------------------------------------------
(* Characters *)

(* the printable ASCII characters, U+0020 to U+007E in order; the backquote *)
(* U+0060 has no literal of its own here                                    *)
Printable ==
    <<" ", "!", "\"", "#", "$", "%", "&", "'", "(", ")", "*", "+", ",", "-",
      ".", "/", "0", "1", "2", "3", "4", "5", "6", "7", "8", "9", ":", ";",
      "<", "=", ">", "?", "@", "A", "B", "C", "D", "E", "F", "G", "H", "I",
      "J", "K", "L", "M", "N", "O", "P", "Q", "R", "S", "T", "U", "V", "W",
      "X", "Y", "Z", "[", "\\", "]", "^", "_", "<backquote>", "a", "b", "c",
      "d", "e", "f", "g", "h", "i", "j", "k", "l", "m", "n", "o", "p", "q",
      "r", "s", "t", "u", "v", "w", "x", "y", "z", "{", "|", "}", "~">>

(* the code point of every character that has a literal *)
CodePoints ==
    [g \in { Printable[i] : i \in 1..Len(Printable) } |->
        31 + CHOOSE i \in 1..Len(Printable) : Printable[i] = g]
    @@ ("\t" :> 9) @@ ("\n" :> 10) @@ ("\f" :> 12) @@ ("\r" :> 13)

(* ord(c) *)
Ord(g) == CodePoints[g]

Str(gs) == [i \in 1..Len(gs) |-> Ord(gs[i])]

DQ == Ord("\"")

BS == Ord("\\")

SLASH == Ord("/")

LBRACE == Ord("{")

RBRACE == Ord("}")

LBRACKET == Ord("[")

RBRACKET == Ord("]")

COLON == Ord(":")

COMMA == Ord(",")

SPACE == Ord(" ")

NL == Ord("\n")

MINUS == Ord("-")

PLUS == Ord("+")

DOT == Ord(".")

ZERO == Ord("0")

BACKQUOTE == 96

BACKSPACE == 8

(* U+FEFF, which json.loads refuses at the start of a document *)
BOM == 65279

(* the end of the string, where At finds no character *)
EOF == -1

(* the whitespace json skips between tokens *)
JsonWhitespace == { SPACE, Ord("\t"), NL, Ord("\r") }

(* the characters str.strip() removes: those str.isspace() holds of *)
PyWhitespace ==
    (9..13) \cup (28..32) \cup {133, 160, 5760} \cup (8192..8202)
    \cup {8232, 8233, 8239, 8287, 12288}

(* the characters a JSON string literal may not hold unescaped *)
ControlChars == 0..31

DigitChars == ZERO..(ZERO + 9)

IsDigit(c) == c \in DigitChars

DigitVal(c) == c - ZERO

(* the value of a hexadecimal digit, -1 for another character *)
HexVal(c) ==
    IF c \in DigitChars THEN c - ZERO
    ELSE IF c \in Ord("a")..Ord("f") THEN c - Ord("a") + 10
    ELSE IF c \in Ord("A")..Ord("F") THEN c - Ord("A") + 10
    ELSE -1

IsHex(c) == HexVal(c) >= 0

(* the lowercase hexadecimal digit of d *)
HexDigit(d) == IF d < 10 THEN ZERO + d ELSE Ord("a") + (d - 10)

IsHighSurrogate(v) == v \in 55296..56319

IsLowSurrogate(v) == v \in 56320..57343

(* F(x): x is evaluated once and named by the parameter of F *)
With(x, F(_)) == F(x)

SetMin(S) == CHOOSE x \in S : \A y \in S : x <= y

SetMax(S) == CHOOSE x \in S : \A y \in S : x >= y

At(s, i) == IF i >= 1 /\ i <= Len(s) THEN s[i] ELSE EOF

StartsWith(s, i, w) ==
    i + Len(w) - 1 <= Len(s) /\ SubSeq(s, i, i + Len(w) - 1) = w

(* the first position at or after i that holds no character of C *)
FirstNotIn(s, i, C) ==
    IF i > Len(s) THEN i
    ELSE SetMin({ j \in i..(Len(s) + 1) : j = Len(s) + 1 \/ s[j] \notin C })

RECURSIVE NatToDigits(_)
NatToDigits(n) ==
    IF n < 10 THEN <<n>> ELSE Append(NatToDigits(n \div 10), n % 10)

RECURSIVE DigitsToNat(_)
DigitsToNat(ds) ==
    IF ds = <<>> THEN 0
    ELSE 10 * DigitsToNat(SubSeq(ds, 1, Len(ds) - 1)) + ds[Len(ds)]

DigitText(ds) == [i \in 1..Len(ds) |-> ZERO + ds[i]]

(* str(n) for n >= 0 *)
IntToStr(n) == DigitText(NatToDigits(n))

Zeros(n) == [i \in 1..n |-> 0]

(* digits without their leading zeros; <<0>> for zero *)
StripLeadingZeros(ds) ==
    LET nz == { k \in 1..Len(ds) : ds[k] # 0 } IN
    IF nz = {} THEN <<0>> ELSE SubSeq(ds, SetMin(nz), Len(ds))

-----------------------------------------------------------------------------
(* JSON values *)

JObj(members) == [t |-> "obj", v |-> members]

JArr(elems) == [t |-> "arr", v |-> elems]

JStr(s) == [t |-> "str", v |-> s]

(* a Python int: zero has no sign *)
JInt(neg, digits) ==
    [t |-> "int", v |-> [neg |-> neg /\ digits # <<0>>, digits |-> digits]]

(* the int n *)
JNum(n) == JInt(n < 0, NatToDigits(IF n < 0 THEN -n ELSE n))

Finite(neg, digits, exp) ==
    [t |-> "float",
     v |-> [kind |-> "finite", neg |-> neg, digits |-> digits, exp |-> exp]]

FloatZero(neg) == Finite(neg, <<0>>, 0)

Infinity(neg) ==
    [t |-> "float",
     v |-> [kind |-> "inf", neg |-> neg, digits |-> <<0>>, exp |-> 0]]

NaN ==
    [t |-> "float",
     v |-> [kind |-> "nan", neg |-> FALSE, digits |-> <<0>>, exp |-> 0]]

JBool(b) == [t |-> "bool", v |-> b]

JNull == [t |-> "null", v |-> <<>>]

EmptyDict == JObj(<<>>)

(* dict[k] = v: an existing key keeps its position, a new key is appended *)
DictSet(members, k, v) ==
    IF \E i \in 1..Len(members) : members[i].k = k
    THEN [i \in 1..Len(members) |->
            IF members[i].k = k THEN [k |-> k, v |-> v] ELSE members[i]]
    ELSE Append(members, [k |-> k, v |-> v])

HasKey(d, k) == \E i \in 1..Len(d.v) : d.v[i].k = k

(* dict.get(k): the value, or None *)
DictGet(d, k) ==
    IF HasKey(d, k)
    THEN d.v[CHOOSE i \in 1..Len(d.v) : d.v[i].k = k].v
    ELSE JNull

(* Python truthiness of a decoded JSON value *)
Truthy(x) ==
    CASE x.t = "null" -> FALSE
      [] x.t = "bool" -> x.v
      [] x.t = "int" -> x.v.digits # <<0>>
      [] x.t = "float" -> x.v.kind # "finite" \/ x.v.digits # <<0>>
      [] x.t \in {"str", "arr", "obj"} -> Len(x.v) > 0
      [] OTHER -> TRUE

-----------------------------------------------------------------------------
(* json.loads.  A result is [ok, err, msg, v, n]: the value v and the       *)
(* position n after it, or the exception type err with its message msg.    *)

Ok(val, next) ==
    [ok |-> TRUE, err |-> "", msg |-> <<>>, v |-> val, n |-> next]

Raised(type, msg) ==
    [ok |-> FALSE, err |-> type, msg |-> msg, v |-> JNull, n |-> 0]

(* lineno of json.JSONDecodeError for the character at position i *)
LineOf(s, i) == 1 + Cardinality({ k \in 1..(i - 1) : s[k] = NL })

(* colno of json.JSONDecodeError for the character at position i *)
ColOf(s, i) ==
    LET nls == { k \in 1..(i - 1) : s[k] = NL } IN
    IF nls = {} THEN i ELSE i - SetMax(nls)

(* json.JSONDecodeError(what, s, i - 1): the character at position i is    *)
(* the one at Python's index i - 1                                         *)
DecodeErr(s, what, i) ==
    Raised("JSONDecodeError",
           what \o Str(<<":", " ", "l", "i", "n", "e", " ">>) \o IntToStr(LineOf(s, i))
                \o Str(<<" ", "c", "o", "l", "u", "m", "n", " ">>) \o IntToStr(ColOf(s, i))
                \o Str(<<" ", "(", "c", "h", "a", "r", " ">>) \o IntToStr(i - 1) \o <<Ord(")")>>)

ExpectingValue == Str(<<"E", "x", "p", "e", "c", "t", "i", "n", "g", " ",
                        "v", "a", "l", "u", "e">>)

ExpectingName == Str(<<"E", "x", "p", "e", "c", "t", "i", "n", "g", " ",
                       "p", "r", "o", "p", "e", "r", "t", "y", " ", "n",
                       "a", "m", "e", " ", "e", "n", "c", "l", "o", "s",
                       "e", "d", " ", "i", "n", " ", "d", "o", "u", "b",
                       "l", "e", " ", "q", "u", "o", "t", "e", "s">>)

ExpectingColon == Str(<<"E", "x", "p", "e", "c", "t", "i", "n", "g", " ",
                        "'", ":", "'", " ", "d", "e", "l", "i", "m", "i",
                        "t", "e", "r">>)

ExpectingComma == Str(<<"E", "x", "p", "e", "c", "t", "i", "n", "g", " ",
                        "'", ",", "'", " ", "d", "e", "l", "i", "m", "i",
                        "t", "e", "r">>)

ExtraData == Str(<<"E", "x", "t", "r", "a", " ", "d", "a", "t", "a">>)

UnexpectedBOM == Str(<<"U", "n", "e", "x", "p", "e", "c", "t", "e", "d",
                       " ", "U", "T", "F", "-", "8", " ", "B", "O", "M",
                       " ", "(", "d", "e", "c", "o", "d", "e", " ", "u",
                       "s", "i", "n", "g", " ", "u", "t", "f", "-", "8",
                       "-", "s", "i", "g", ")">>)

UnterminatedString == Str(<<"U", "n", "t", "e", "r", "m", "i", "n", "a",
                            "t", "e", "d", " ", "s", "t", "r", "i", "n",
                            "g", " ", "s", "t", "a", "r", "t", "i", "n",
                            "g", " ", "a", "t">>)

InvalidControl == Str(<<"I", "n", "v", "a", "l", "i", "d", " ", "c", "o",
                        "n", "t", "r", "o", "l", " ", "c", "h", "a", "r",
                        "a", "c", "t", "e", "r", " ", "a", "t">>)

InvalidEscape == Str(<<"I", "n", "v", "a", "l", "i", "d", " ", "\\", "e",
                       "s", "c", "a", "p", "e">>)

InvalidUEscape == Str(<<"I", "n", "v", "a", "l", "i", "d", " ", "\\", "u",
                        "X", "X", "X", "X", " ", "e", "s", "c", "a", "p",
                        "e">>)

(* the scanner's StopIteration(i - 1): no value starts at position i *)
Stop(i) ==
    [ok |-> FALSE, err |-> "StopIteration", msg |-> <<>>, v |-> JNull, n |-> i]

RecursionPlain == Str(<<"m", "a", "x", "i", "m", "u", "m", " ", "r", "e",
                        "c", "u", "r", "s", "i", "o", "n", " ", "d", "e",
                        "p", "t", "h", " ", "e", "x", "c", "e", "e", "d",
                        "e", "d">>)

RecursionCalling ==
    Str(<<"m", "a", "x", "i", "m", "u", "m", " ", "r", "e", "c", "u", "r",
          "s", "i", "o", "n", " ", "d", "e", "p", "t", "h", " ", "e", "x",
          "c", "e", "e", "d", "e", "d", " ", "w", "h", "i", "l", "e", " ",
          "c", "a", "l", "l", "i", "n", "g", " ", "a", " ", "P", "y", "t",
          "h", "o", "n", " ", "o", "b", "j", "e", "c", "t">>)

(* the levels of the recursion limit the construction of a                 *)
(* json.JSONDecodeError takes: the call of the class, the frame of its     *)
(* __init__, and the call of ValueError.__init__ in it                     *)
ConstructLevels == 3

(* a call that finds avail levels of the recursion limit left and needs    *)
(* more: the frame of a Python function is refused with the plain message  *)
CallFailure(avail) ==
    Raised("RecursionError",
           IF avail = 1 THEN RecursionPlain ELSE RecursionCalling)

(* JSONDecodeError(what, s, i - 1), constructed where avail levels of the  *)
(* recursion limit are left                                                *)
Construct(s, what, i, avail) ==
    IF avail >= ConstructLevels THEN DecodeErr(s, what, i)
    ELSE CallFailure(avail)

(* the decoder entered one container more than the interpreter's stack     *)
(* has room for                                                            *)
RecursionErr(container) ==
    Raised("RecursionError",
           Str(<<"m", "a", "x", "i", "m", "u", "m", " ", "r", "e", "c",
                 "u", "r", "s", "i", "o", "n", " ", "d", "e", "p", "t",
                 "h", " ", "e", "x", "c", "e", "e", "d", "e", "d", " ",
                 "w", "h", "i", "l", "e", " ", "d", "e", "c", "o", "d",
                 "i", "n", "g", " ", "a", " ", "J", "S", "O", "N", " ">>)
           \o container \o Str(<<" ", "f", "r", "o", "m", " ", "a", " ",
                                 "u", "n", "i", "c", "o", "d", "e", " ",
                                 "s", "t", "r", "i", "n", "g">>))

(* sys.get_int_max_str_digits() *)
IntMaxStrDigits == 4300

(* int() of a literal with more digits than the interpreter converts *)
IntDigitsErr(n) ==
    Raised("ValueError",
           Str(<<"E", "x", "c", "e", "e", "d", "s", " ", "t", "h", "e",
                 " ", "l", "i", "m", "i", "t", " ", "(", "4", "3", "0",
                 "0", " ", "d", "i", "g", "i", "t", "s", ")", " ", "f",
                 "o", "r", " ", "i", "n", "t", "e", "g", "e", "r", " ",
                 "s", "t", "r", "i", "n", "g", " ", "c", "o", "n", "v",
                 "e", "r", "s", "i", "o", "n", ":", " ", "v", "a", "l",
                 "u", "e", " ", "h", "a", "s", " ">>)
           \o IntToStr(n)
           \o Str(<<" ", "d", "i", "g", "i", "t", "s", ";", " ", "u", "s",
                    "e", " ", "s", "y", "s", ".", "s", "e", "t", "_", "i",
                    "n", "t", "_", "m", "a", "x", "_", "s", "t", "r", "_",
                    "d", "i", "g", "i", "t", "s", "(", ")", " ", "t", "o",
                    " ", "i", "n", "c", "r", "e", "a", "s", "e", " ", "t",
                    "h", "e", " ", "l", "i", "m", "i", "t">>))

SkipWs(s, i) == FirstNotIn(s, i, JsonWhitespace)

(* the character a simple escape letter stands for *)
Unescape(c) ==
    CASE c = Ord("b") -> BACKSPACE
      [] c = Ord("f") -> Ord("\f")
      [] c = Ord("n") -> NL
      [] c = Ord("r") -> Ord("\r")
      [] c = Ord("t") -> Ord("\t")
      [] OTHER -> c

EscapeLetters ==
    { DQ, BS, SLASH, Ord("b"), Ord("f"), Ord("n"), Ord("r"), Ord("t"),
      Ord("u") }

(* the number of consecutive backslashes right before position j, counted  *)
(* back to position lo at most                                             *)
BackslashRun(s, lo, j) ==
    IF j - 1 < lo \/ s[j - 1] # BS THEN 0
    ELSE LET stops == { k \in lo..(j - 1) : s[k] # BS } IN
         IF stops = {} THEN j - lo ELSE (j - 1) - SetMax(stops)

(* the character at k follows the backslash of an escape *)
Escaped(s, lo, k) == BackslashRun(s, lo, k) % 2 = 1

(* the quote that ends the string literal whose body starts at i: the     *)
(* first one not escaped by a backslash; 0 when there is none             *)
ClosingQuote(s, i) ==
    LET qs == { j \in i..Len(s) : s[j] = DQ /\ ~Escaped(s, i, j) }
    IN IF qs = {} THEN 0 ELSE SetMin(qs)

(* the u of an escape at k has its four hexadecimal digits, and a          *)
(* character after them                                                    *)
HexOk(s, k) == k + 5 <= Len(s) /\ \A j \in (k + 1)..(k + 4) : IsHex(s[j])

(* the code unit \uXXXX names, k the position of the u *)
UValue(s, k) ==
    4096 * HexVal(s[k + 1]) + 256 * HexVal(s[k + 2])
    + 16 * HexVal(s[k + 3]) + HexVal(s[k + 4])

(* what is wrong with the character at k of a string body that starts at   *)
(* lo, "" when nothing is                                                   *)
BodyError(s, lo, k) ==
    IF Escaped(s, lo, k)
    THEN IF s[k] \notin EscapeLetters THEN "escape"
         ELSE IF s[k] = Ord("u") /\ ~HexOk(s, k) THEN "uescape"
         ELSE ""
    ELSE IF s[k] \in ControlChars THEN "control" ELSE ""

(* the body lo..hi holds no control character and only known escapes *)
BodyValid(s, lo, hi) == \A k \in lo..hi : BodyError(s, lo, k) = ""

(* k holds the u of a \uXXXX escape of the body lo..hi *)
IsUEscape(s, lo, hi, k) ==
    k >= lo /\ k + 4 <= hi /\ s[k] = Ord("u") /\ Escaped(s, lo, k)

(* k holds one of the four digits of a \uXXXX escape *)
InHex(s, lo, k) ==
    \E j \in (k - 4)..(k - 1) : j >= lo /\ s[j] = Ord("u") /\ Escaped(s, lo, j)

(* what the \uXXXX escape whose u is at k contributes: a high surrogate    *)
(* directly followed by an escaped low surrogate makes one character with  *)
(* it                                                                      *)
UPiece(s, lo, hi, k) ==
    LET v == UValue(s, k) IN
    IF /\ IsLowSurrogate(v)
       /\ IsUEscape(s, lo, hi, k - 6)
       /\ IsHighSurrogate(UValue(s, k - 6))
    THEN <<>>
    ELSE IF /\ IsHighSurrogate(v)
            /\ IsUEscape(s, lo, hi, k + 6)
            /\ IsLowSurrogate(UValue(s, k + 6))
         THEN <<65536 + (v - 55296) * 1024 + (UValue(s, k + 6) - 56320)>>
         ELSE <<v>>

(* what the character at k of the body contributes to the decoded string *)
Piece(s, lo, hi, k) ==
    IF Escaped(s, lo, k)
    THEN IF s[k] = Ord("u") THEN UPiece(s, lo, hi, k)
         ELSE <<Unescape(s[k])>>
    ELSE IF s[k] = BS \/ InHex(s, lo, k) THEN <<>>
    ELSE <<s[k]>>

RECURSIVE Pieces(_, _, _, _, _)
Pieces(s, lo, hi, a, b) ==
    IF a > b THEN <<>>
    ELSE IF a = b THEN Piece(s, lo, hi, a)
    ELSE LET mid == (a + b) \div 2 IN
         Pieces(s, lo, hi, a, mid) \o Pieces(s, lo, hi, mid + 1, b)

(* the string literal whose body starts at position i, after the opening  *)
(* quote: the first character in error decides the failure, raised where  *)
(* room levels are left                                                    *)
ScanString(s, i, room) ==
    LET q == ClosingQuote(s, i)
        hi == IF q = 0 THEN Len(s) ELSE q - 1
        bad == { k \in i..hi : BodyError(s, i, k) # "" }
    IN IF bad # {}
       THEN LET k == SetMin(bad)
                kind == BodyError(s, i, k)
            IN IF kind = "escape"
               THEN Construct(s, InvalidEscape, k - 1, room)
               ELSE IF kind = "uescape"
               THEN Construct(s, InvalidUEscape, k, room)
               ELSE Construct(s, InvalidControl, k, room)
       ELSE IF q = 0 THEN Construct(s, UnterminatedString, i - 1, room)
       ELSE Ok(JStr(Pieces(s, i, hi, i, hi)), q + 1)

DigitVals(s, a, b) == [k \in 1..(b - a) |-> DigitVal(s[a + k - 1])]

(* the exponent of a float literal: float() takes an exponent of more     *)
(* than nine digits as 1100000000 (MAX_ABS_EXP of CPython's dtoa.c)        *)
ExponentValue(neg, ds) ==
    LET d == StripLeadingZeros(ds)
        mag == IF Len(d) > 9 THEN 1100000000 ELSE DigitsToNat(d)
    IN IF neg THEN -mag ELSE mag

(* A double is m * 2^e with m below 2^53, and at least 2^52 unless e is    *)
(* the least exponent (the subnormals).                                    *)
TwoTo52 == <<4, 5, 0, 3, 5, 9, 9, 6, 2, 7, 3, 7, 0, 4, 9, 6>>

TwoTo53 == <<9, 0, 0, 7, 1, 9, 9, 2, 5, 4, 7, 4, 0, 9, 9, 2>>

MinBinaryExp == -1074

MaxBinaryExp == 971

(* every double, and every point half way between two doubles, is written  *)
(* with fewer significant digits than this                                 *)
MaxSignificant == 800

(* A scaled decimal [d, s, e] is the number (d / 10^s) * 2^e: d its        *)
(* digits, the last s of them after the point.  Double and Halve keep the  *)
(* number and move e by one.  They work digit by digit: twice a digit      *)
(* carries 1 exactly when the next digit is 5 or more, and half a digit    *)
(* takes 5 exactly when the digit before it is odd.                        *)
Scaled(d, s, e) == [d |-> d, s |-> s, e |-> e]

(* the function f on 1..n as a tuple, which TLC holds by its elements *)
AsTuple(f) == f \o <<>>

Double(x) ==
    LET n == Len(x.d)
        twice == AsTuple([i \in 1..n |->
                    ((2 * x.d[i]) % 10)
                    + (IF i < n /\ x.d[i + 1] >= 5 THEN 1 ELSE 0)])
        full == IF n > 0 /\ x.d[1] >= 5 THEN <<1>> \o twice ELSE twice
    IN IF x.s > 0 /\ full[Len(full)] = 0
       THEN Scaled(SubSeq(full, 1, Len(full) - 1), x.s - 1, x.e - 1)
       ELSE Scaled(full, x.s, x.e - 1)

Halve(x) ==
    LET odd == x.d # <<>> /\ x.d[Len(x.d)] % 2 = 1
        d == IF odd THEN Append(x.d, 0) ELSE x.d
        s == IF odd THEN x.s + 1 ELSE x.s
        half == AsTuple([i \in 1..Len(d) |->
                   (d[i] + (IF i > 1 /\ d[i - 1] % 2 = 1 THEN 10 ELSE 0))
                   \div 2])
    IN IF Len(half) > s /\ half[1] = 0
       THEN Scaled(SubSeq(half, 2, Len(half)), s, x.e + 1)
       ELSE Scaled(half, s, x.e + 1)

IntPart(x) == SubSeq(x.d, 1, Len(x.d) - x.s)

FracPart(x) == SubSeq(x.d, Len(x.d) - x.s + 1, Len(x.d))

(* -1, 0 or 1 as a is below, equal to or above b, for naturals written     *)
(* without leading zeros, or with as many digits as each other             *)
CompareNat(a, b) ==
    LET diff == { k \in 1..Len(a) : a[k] # b[k] } IN
    IF Len(a) < Len(b) THEN -1
    ELSE IF Len(a) > Len(b) THEN 1
    ELSE IF diff = {} THEN 0
    ELSE IF a[SetMin(diff)] < b[SetMin(diff)] THEN -1
    ELSE 1

(* round to nearest, a tie to the even neighbour: the fraction 0.f is      *)
(* above one half, or is one half and the digit before it is odd           *)
RoundsUp(f, odd) ==
    /\ f # <<>>
    /\ f[1] >= 5
    /\ f[1] > 5 \/ (\E k \in 2..Len(f) : f[k] # 0) \/ odd

(* the last position of ds that holds another digit than c, or 0 *)
LastOther(ds, c) ==
    LET other == { k \in 1..Len(ds) : ds[Len(ds) + 1 - k] # c } IN
    IF other = {} THEN 0 ELSE Len(ds) + 1 - SetMin(other)

(* d + 1 and d - 1 (d # 0) for a digit sequence d *)
Succ(d) ==
    LET i == LastOther(d, 9) IN
    IF i = 0 THEN <<1>> \o Zeros(Len(d))
    ELSE AsTuple([k \in 1..Len(d) |->
            IF k < i THEN d[k] ELSE IF k = i THEN d[k] + 1 ELSE 0])

Pred(d) ==
    LET i == LastOther(d, 0) IN
    AsTuple([k \in 1..Len(d) |->
        IF k < i THEN d[k] ELSE IF k = i THEN d[k] - 1 ELSE 9])

(* the decimal has its integer part in the range of a mantissa *)
InRange(x) ==
    /\ CompareNat(IntPart(x), TwoTo53) < 0
    /\ CompareNat(IntPart(x), TwoTo52) >= 0 \/ x.e = MinBinaryExp

RECURSIVE Normalize(_, _)
(* x after up to 2^k halvings or doublings towards the range *)
Normalize(x, k) ==
    IF InRange(x) THEN x
    ELSE IF k = 0
    THEN IF CompareNat(IntPart(x), TwoTo53) >= 0 THEN Halve(x) ELSE Double(x)
    ELSE With(Normalize(x, k - 1), LAMBDA y : Normalize(y, k - 1))

RECURSIVE Rescale(_, _)
(* x doubled or halved until its exponent is t *)
Rescale(x, t) ==
    IF x.e = t THEN x
    ELSE IF x.e = t + 1 THEN Double(x)
    ELSE IF x.e = t - 1 THEN Halve(x)
    ELSE With(Rescale(x, (x.e + t) \div 2), LAMBDA y : Rescale(y, t))

Binary(m, e) ==
    IF m = <<>> THEN [kind |-> "zero", m |-> m, e |-> 0]
    ELSE IF e > MaxBinaryExp THEN [kind |-> "inf", m |-> m, e |-> 0]
    ELSE [kind |-> "finite", m |-> m, e |-> e]

(* the double nearest to a normalized decimal *)
Rounded(x) ==
    LET m == IntPart(x)
        odd == m # <<>> /\ m[Len(m)] % 2 = 1
        r == IF ~RoundsUp(FracPart(x), odd) THEN m
             ELSE IF m = <<>> THEN <<1>>
             ELSE Succ(m)
    IN IF r = TwoTo53 THEN Binary(TwoTo52, x.e + 1) ELSE Binary(r, x.e)

(* the double nearest to n * 10^p, for digits n that neither start nor end *)
(* with 0.  Digits beyond MaxSignificant cannot decide the rounding by     *)
(* their value, only by not being all zero: one digit 1 stands for them.   *)
(* No literal in range is more than 2^11 doublings or halvings away from   *)
(* its mantissa.                                                           *)
NearestDouble(n, p) ==
    IF Len(n) + p > 309 THEN Binary(n, MaxBinaryExp + 1)
    ELSE IF Len(n) + p < -323 THEN Binary(<<>>, 0)
    ELSE LET long == Len(n) > MaxSignificant
             d == IF long THEN Append(SubSeq(n, 1, MaxSignificant), 1) ELSE n
             q == IF long THEN p + Len(n) - (MaxSignificant + 1) ELSE p
         IN With(Normalize(IF q >= 0
                           THEN Scaled(d \o Zeros(q), 0, 0)
                           ELSE Scaled(Zeros(-q - Len(d)) \o d, -q, 0),
                           11),
                 Rounded)

(* The shortest decimal between lo and hi, the one nearest to v if there   *)
(* are several, a tie to the even digit; lo < v < hi are decimals with     *)
(* e = 0 and closed tells whether lo and hi themselves count.  The result  *)
(* is digits and exp for the number d.ddd * 10^exp; 17 digits tell any two *)
(* doubles apart.                                                          *)
ShortestBetween(lo, v, hi, closed) ==
    LET s == SetMax({ lo.s, v.s, hi.s })
        n == 1 + SetMax({ Len(lo.d) + s - lo.s, Len(v.d) + s - v.s,
                          Len(hi.d) + s - hi.s })
        Align(x) == Zeros(n - Len(x.d) - (s - x.s)) \o x.d \o Zeros(s - x.s)
        L == Align(lo)
        V == Align(v)
        H == Align(hi)
        Inside(c) ==
            IF closed
            THEN CompareNat(L, c) <= 0 /\ CompareNat(c, H) <= 0
            ELSE CompareNat(L, c) < 0 /\ CompareNat(c, H) < 0
        (* V cut after q digits, and the next decimal of q digits *)
        Floor(q) == AsTuple([k \in 1..n |-> IF k <= q THEN V[k] ELSE 0])
        Ceil(q) == Succ(SubSeq(V, 1, q)) \o Zeros(n - q)
        Exact(q) == \A k \in (q + 1)..n : V[k] = 0
        FloorOk(q) == Inside(Floor(q))
        CeilOk(q) == ~Exact(q) /\ Inside(Ceil(q))
        Nearest(q) ==
            IF ~CeilOk(q) THEN Floor(q)
            ELSE IF ~FloorOk(q) THEN Ceil(q)
            ELSE IF RoundsUp(SubSeq(V, q + 1, n), V[q] % 2 = 1) THEN Ceil(q)
            ELSE Floor(q)
        First(c) == SetMin({ k \in 1..n : c[k] # 0 })
        Digits(c) == [digits |-> SubSeq(c, First(c), LastOther(c, 0)),
                      exp |-> n - First(c) - s]
    IN With(SetMin({ q \in First(V)..(First(V) + 16) :
                       FloorOk(q) \/ CeilOk(q) }),
            LAMBDA q : With(Nearest(q), Digits))

(* float.__repr__'s digits for the double m * 2^e: the shortest decimal    *)
(* that float() reads back as this double.  A decimal does so when it is   *)
(* nearer to the double than to its neighbours; the neighbour below a      *)
(* power of two is at half the distance.                                   *)
ShortestDigits(m, e) ==
    LET twice == Double(Scaled(m, 0, 0)).d
        below == IF m = TwoTo52 /\ e > MinBinaryExp
                 THEN Scaled(Pred(Double(Scaled(twice, 0, 0)).d), 0, e - 2)
                 ELSE Scaled(Pred(twice), 0, e - 1)
    IN ShortestBetween(Rescale(below, 0),
                       Rescale(Scaled(m, 0, e), 0),
                       Rescale(Scaled(Succ(twice), 0, e - 1), 0),
                       m[Len(m)] % 2 = 0)

(* float() of a literal: ds are the digits of its integer and fraction     *)
(* parts, intLen of them before the point, e its exponent.  The value is   *)
(* the nearest double, kept as the digits float.__repr__ gives it.         *)
MakeFloat(neg, ds, intLen, e) ==
    LET nz == { k \in 1..Len(ds) : ds[k] # 0 } IN
    IF nz = {} THEN FloatZero(neg)
    ELSE With(NearestDouble(SubSeq(ds, SetMin(nz), LastOther(ds, 0)),
                            e + intLen - LastOther(ds, 0)),
              LAMBDA b :
              IF b.kind = "inf" THEN Infinity(neg)
              ELSE IF b.kind = "zero" THEN FloatZero(neg)
              ELSE With(ShortestDigits(b.m, b.e),
                        LAMBDA r : Finite(neg, r.digits, r.exp)))

(* the number literal at i: an optional minus sign, then 0 or a run of     *)
(* digits that does not start with 0, then an optional fraction (a point   *)
(* and digits) and an optional exponent (e or E, an optional sign, and     *)
(* digits); an int without fraction and exponent, else a float             *)
ScanNumber(s, i) ==
    LET neg == At(s, i) = MINUS
        a == IF neg THEN i + 1 ELSE i
        b == IF At(s, a) = ZERO THEN a + 1 ELSE FirstNotIn(s, a, DigitChars)
        hasFrac == At(s, b) = DOT /\ IsDigit(At(s, b + 1))
        c == IF hasFrac THEN FirstNotIn(s, b + 1, DigitChars) ELSE b
        isE == At(s, c) \in { Ord("e"), Ord("E") }
        d == IF isE /\ At(s, c + 1) \in { PLUS, MINUS } THEN c + 2 ELSE c + 1
        hasExp == isE /\ IsDigit(At(s, d))
        e == IF hasExp THEN FirstNotIn(s, d, DigitChars) ELSE c
    IN IF ~IsDigit(At(s, a)) THEN Stop(i)
       ELSE IF ~hasFrac /\ ~hasExp
       THEN IF b - a > IntMaxStrDigits THEN IntDigitsErr(b - a)
            ELSE Ok(JInt(neg, DigitVals(s, a, b)), b)
       ELSE Ok(MakeFloat(neg,
                         DigitVals(s, a, b)
                         \o (IF hasFrac THEN DigitVals(s, b + 1, c) ELSE <<>>),
                         b - a,
                         IF hasExp
                         THEN ExponentValue(At(s, c + 1) = MINUS,
                                            DigitVals(s, d, e))
                         ELSE 0),
               e)

RECURSIVE ScanValue(_, _, _)
RECURSIVE ScanMembers(_, _, _, _)
RECURSIVE ScanElements(_, _, _, _)

(* members of an object from position i, after the whitespace that follows *)
(* the brace or a comma; room is the number of container levels the        *)
(* interpreter's stack still has room for                                  *)
ScanMembers(s, i, acc, room) ==
    IF At(s, i) # DQ THEN Construct(s, ExpectingName, i, room)
    ELSE With(ScanString(s, i + 1, room), LAMBDA key :
         IF ~key.ok THEN key
         ELSE With(SkipWs(s, key.n), LAMBDA c :
              IF At(s, c) # COLON THEN Construct(s, ExpectingColon, c, room)
              ELSE With(ScanValue(s, SkipWs(s, c + 1), room), LAMBDA val :
                   IF ~val.ok THEN val
                   ELSE With(SkipWs(s, val.n), LAMBDA e :
                        With(DictSet(acc, key.v.v, val.v), LAMBDA members :
                        IF At(s, e) = RBRACE THEN Ok(JObj(members), e + 1)
                        ELSE IF At(s, e) = COMMA
                             THEN ScanMembers(s, SkipWs(s, e + 1), members,
                                              room)
                             ELSE Construct(s, ExpectingComma, e, room))))))

(* elements of an array from position i, which holds the start of a value *)
ScanElements(s, i, acc, room) ==
    With(ScanValue(s, i, room), LAMBDA val :
    IF ~val.ok THEN val
    ELSE With(SkipWs(s, val.n), LAMBDA e :
         IF At(s, e) = RBRACKET THEN Ok(JArr(Append(acc, val.v)), e + 1)
         ELSE IF At(s, e) = COMMA
              THEN ScanElements(s, SkipWs(s, e + 1), Append(acc, val.v),
                                room)
              ELSE Construct(s, ExpectingComma, e, room)))

(* parse_constant(name), a call that takes one level *)
Constant(val, next, room) ==
    IF room = 0 THEN CallFailure(room) ELSE Ok(val, next)

(* the value at position i *)
ScanValue(s, i, room) ==
    LET c == At(s, i) IN
    IF c = DQ THEN ScanString(s, i + 1, room)
    ELSE IF c = LBRACE
         THEN IF room = 0 THEN RecursionErr(Str(<<"o", "b", "j", "e", "c",
                                                  "t">>))
              ELSE LET j == SkipWs(s, i + 1) IN
                   IF At(s, j) = RBRACE THEN Ok(EmptyDict, j + 1)
                   ELSE ScanMembers(s, j, <<>>, room - 1)
    ELSE IF c = LBRACKET
         THEN IF room = 0 THEN RecursionErr(Str(<<"a", "r", "r", "a", "y">>))
              ELSE LET j == SkipWs(s, i + 1) IN
                   IF At(s, j) = RBRACKET THEN Ok(JArr(<<>>), j + 1)
                   ELSE ScanElements(s, j, <<>>, room - 1)
    ELSE IF StartsWith(s, i, Str(<<"n", "u", "l", "l">>)) THEN Ok(JNull, i + 4)
    ELSE IF StartsWith(s, i, Str(<<"t", "r", "u", "e">>)) THEN Ok(JBool(TRUE), i + 4)
    ELSE IF StartsWith(s, i, Str(<<"f", "a", "l", "s", "e">>)) THEN Ok(JBool(FALSE), i + 5)
    ELSE IF StartsWith(s, i, Str(<<"N", "a", "N">>)) THEN Constant(NaN, i + 3, room)
    ELSE IF StartsWith(s, i, Str(<<"I", "n", "f", "i", "n", "i", "t", "y">>))
         THEN Constant(Infinity(FALSE), i + 8, room)
    ELSE IF StartsWith(s, i, Str(<<"-", "I", "n", "f", "i", "n", "i", "t",
                                   "y">>))
         THEN Constant(Infinity(TRUE), i + 9, room)
    ELSE ScanNumber(s, i)

(* json.loads(s) where the recursion limit has room for `room` nested      *)
(* containers: the scanner runs one call below raw_decode, which turns its *)
(* StopIteration into "Expecting value"; decode, one frame above, raises   *)
(* "Extra data", and loads, one more above, refuses the byte order mark    *)
JsonLoads(s, room) ==
    IF At(s, 1) = BOM THEN Construct(s, UnexpectedBOM, 1, room + 3)
    ELSE With(ScanValue(s, SkipWs(s, 1), room), LAMBDA r :
         IF r.err = "StopIteration"
         THEN Construct(s, ExpectingValue, r.n, room + 1)
         ELSE IF ~r.ok THEN r
         ELSE With(SkipWs(s, r.n), LAMBDA end :
              IF end # Len(s) + 1
              THEN Construct(s, ExtraData, end, room + 2)
              ELSE r))

-----------------------------------------------------------------------------
(* json.dumps with its defaults: ", " and ": " separators, ensure_ascii *)

Hex4(v) ==
    <<BS, Ord("u"), HexDigit(v \div 4096), HexDigit((v \div 256) % 16),
      HexDigit((v \div 16) % 16), HexDigit(v % 16)>>

(* a character of a string, as json.dumps writes it *)
Escape(c) ==
    CASE c = DQ -> <<BS, DQ>>
      [] c = BS -> <<BS, BS>>
      [] c = NL -> <<BS, Ord("n")>>
      [] c = Ord("\r") -> <<BS, Ord("r")>>
      [] c = Ord("\t") -> <<BS, Ord("t")>>
      [] c = Ord("\f") -> <<BS, Ord("f")>>
      [] c = BACKSPACE -> <<BS, Ord("b")>>
      [] OTHER ->
           IF c >= SPACE /\ c <= Ord("~") THEN <<c>>
           ELSE IF c < 65536 THEN Hex4(c)
           ELSE Hex4(55296 + ((c - 65536) \div 1024))
                \o Hex4(56320 + ((c - 65536) % 1024))

RECURSIVE EscapeRange(_, _, _)
EscapeRange(s, a, b) ==
    IF a > b THEN <<>>
    ELSE IF a = b THEN Escape(s[a])
    ELSE LET mid == (a + b) \div 2 IN
         EscapeRange(s, a, mid) \o EscapeRange(s, mid + 1, b)

EscapeAll(s) == EscapeRange(s, 1, Len(s))

EncodeString(s) == <<DQ>> \o EscapeAll(s) \o <<DQ>>

(* int.__repr__ *)
IntRepr(x) == (IF x.neg THEN <<MINUS>> ELSE <<>>) \o DigitText(x.digits)

(* float.__repr__ of a finite float, and the names json.dumps gives to the *)
(* others                                                                  *)
FloatRepr(x) ==
    LET sign == IF x.neg THEN <<MINUS>> ELSE <<>>
        n == Len(x.digits)
        decpt == x.exp + 1
        mag == IF x.exp < 0 THEN -x.exp ELSE x.exp
    IN IF x.kind = "nan" THEN Str(<<"N", "a", "N">>)
       ELSE IF x.kind = "inf" THEN sign \o Str(<<"I", "n", "f", "i", "n",
                                                 "i", "t", "y">>)
       ELSE IF x.digits = <<0>> THEN sign \o Str(<<"0", ".", "0">>)
       ELSE IF decpt <= -4 \/ decpt > 16
       THEN sign \o DigitText(SubSeq(x.digits, 1, 1))
            \o (IF n > 1 THEN <<DOT>> \o DigitText(SubSeq(x.digits, 2, n))
                ELSE <<>>)
            \o <<Ord("e"), IF x.exp < 0 THEN MINUS ELSE PLUS>>
            \o (IF mag < 10 THEN <<ZERO>> ELSE <<>>) \o IntToStr(mag)
       ELSE IF decpt <= 0
       THEN sign \o <<ZERO, DOT>> \o DigitText(Zeros(-decpt) \o x.digits)
       ELSE IF decpt >= n
       THEN sign \o DigitText(x.digits \o Zeros(decpt - n)) \o <<DOT, ZERO>>
       ELSE sign \o DigitText(SubSeq(x.digits, 1, decpt)) \o <<DOT>>
            \o DigitText(SubSeq(x.digits, decpt + 1, n))

(* a failed dump carries in s the type name of the offending object *)
DumpFail(typeName) == [ok |-> FALSE, s |-> typeName]

Dumped(s) == [ok |-> TRUE, s |-> s]

RECURSIVE JsonDumps(_)
RECURSIVE DumpItems(_, _)

(* the items of a dict (isObj) or list, ", "-separated *)
DumpItems(items, isObj) ==
    IF items = <<>> THEN Dumped(<<>>)
    ELSE LET first == JsonDumps(IF isObj THEN Head(items).v ELSE Head(items))
             rest == DumpItems(Tail(items), isObj)
             key == IF isObj
                    THEN EncodeString(Head(items).k) \o <<COLON, SPACE>>
                    ELSE <<>>
             sep == IF Len(items) > 1 THEN <<COMMA, SPACE>> ELSE <<>>
         IN IF ~first.ok THEN first
            ELSE IF ~rest.ok THEN rest
            ELSE Dumped(key \o first.s \o sep \o rest.s)

(* json.dumps(x): ok = FALSE stands for TypeError (not JSON serializable) *)
JsonDumps(x) ==
    CASE x.t = "null" -> Dumped(Str(<<"n", "u", "l", "l">>))
      [] x.t = "bool" -> Dumped(IF x.v THEN Str(<<"t", "r", "u", "e">>) ELSE Str(<<"f", "a", "l", "s", "e">>))
      [] x.t = "int" -> Dumped(IntRepr(x.v))
      [] x.t = "float" -> Dumped(FloatRepr(x.v))
      [] x.t = "str" -> Dumped(EncodeString(x.v))
      [] x.t = "arr" -> LET d == DumpItems(x.v, FALSE) IN
                        IF d.ok THEN Dumped(<<LBRACKET>> \o d.s \o <<RBRACKET>>)
                        ELSE d
      [] x.t = "obj" -> LET d == DumpItems(x.v, TRUE) IN
                        IF d.ok THEN Dumped(<<LBRACE>> \o d.s \o <<RBRACE>>)
                        ELSE d
      [] OTHER -> DumpFail(x.v)

-----------------------------------------------------------------------------
(* extract_json_from_text *)

(* mutant: the last c instead of the first *)
FindLast(s, c) ==
    IF \E i \in 1..Len(s) : s[i] = c
    THEN (CHOOSE i \in 1..Len(s) :
            s[i] = c /\ \A j \in (i + 1)..Len(s) : s[j] # c) - 1
    ELSE -1

(* str.find(c): 0-based index of the first c, or -1 *)
Find(s, c) ==
    IF \E i \in 1..Len(s) : s[i] = c
    THEN (CHOOSE i \in 1..Len(s) : s[i] = c /\ \A j \in 1..(i - 1) : s[j] # c) - 1
    ELSE -1

(* str.rfind(c): 0-based index of the last c, or -1 *)
RFind(s, c) ==
    IF \E i \in 1..Len(s) : s[i] = c
    THEN (CHOOSE i \in 1..Len(s) :
            s[i] = c /\ \A j \in (i + 1)..Len(s) : s[j] # c) - 1
    ELSE -1

LStrip(s) == SubSeq(s, FirstNotIn(s, 1, PyWhitespace), Len(s))

RStrip(s) ==
    LET solid == { i \in 1..Len(s) : s[i] \notin PyWhitespace } IN
    IF solid = {} THEN <<>> ELSE SubSeq(s, 1, SetMax(solid))

(* str.strip() *)
Strip(s) == RStrip(LStrip(s))

K_reasoning == Str(<<"r", "e", "a", "s", "o", "n", "i", "n", "g">>)

Reasoning(s) == JObj(<<[k |-> K_reasoning, v |-> JStr(Strip(s))]>>)

(* text[start : end + 1] for 0-based start and end *)
Slice(s, start, end) == SubSeq(s, start + 1, end + 1)

(* extract_json_from_text(text), a json.loads result: the value returned,  *)
(* or the exception of json.loads that is no JSONDecodeError and leaves    *)
(* the function                                                            *)
extract_json_from_text(s, room) ==
    IF s = <<>> THEN Ok(EmptyDict, 0)
    ELSE LET start == Find(s, LBRACE)
             end == RFind(s, RBRACE)
         IN IF start = -1 \/ end = -1 \/ end <= start
            THEN Ok(Reasoning(s), 0)
            ELSE With(JsonLoads(Slice(s, start, end), room), LAMBDA r :
                 IF r.ok THEN Ok(r.v, 0)
                 ELSE IF r.err = "JSONDecodeError" THEN Ok(Reasoning(s), 0)
                 ELSE r)

-----------------------------------------------------------------------------
(* Program constants *)

K_model == Str(<<"m", "o", "d", "e", "l">>)

K_system == Str(<<"s", "y", "s", "t", "e", "m">>)

K_prompt == Str(<<"p", "r", "o", "m", "p", "t">>)

K_annotation == Str(<<"a", "n", "n", "o", "t", "a", "t", "i", "o", "n">>)

DefaultModel == Str(<<"c", "l", "a", "u", "d", "e", "-", "3", "-", "5",
                      "-", "s", "o", "n", "n", "e", "t", "-", "2", "0",
                      "2", "4", "0", "6", "2", "0">>)

DefaultSystem == Str(<<"Y", "o", "u", " ", "a", "r", "e", " ", "a", "n",
                       " ", "a", "n", "n", "o", "t", "a", "t", "i", "o",
                       "n", " ", "a", "s", "s", "i", "s", "t", "a", "n",
                       "t", " ", "r", "e", "t", "u", "r", "n", "i", "n",
                       "g", " ", "J", "S", "O", "N", ".">>)

MaxOutputTokens == 400

Temperature == 0

(* sys.getrecursionlimit() of an interpreter started with its defaults *)
DefaultRecursionLimit == 1000

(* the part of the recursion limit in use when json.loads, called at line  *)
(* 12 or line 25, scans the document: with the default limit a document    *)
(* of 993 nested containers is read and one of 994 raises RecursionError   *)
JsonFrames == 7

(* the number of nested containers json.loads has room for *)
JsonRoom(limit) == limit - JsonFrames

-----------------------------------------------------------------------------
(* Bounds and inputs *)

MaxBlocks == 3

(* the length of the text before and after the core of a reply text *)
MaxLen == 2

(* the nesting a lowered recursion limit leaves room for *)
MaxDepth == 4

(* the interpreter's recursion limit: the default, and a limit lowered so  *)
(* far that documents of the size explored here reach it (the client       *)
(* library is imported before the limit applies and answers within it)     *)
RecursionLimits == { DefaultRecursionLimit, JsonFrames + MaxDepth }

RECURSIVE JoinWith(_, _)
JoinWith(parts, sep) ==
    IF parts = <<>> THEN <<>>
    ELSE IF Len(parts) = 1 THEN parts[1]
    ELSE parts[1] \o sep \o JoinWith(Tail(parts), sep)

(* the text of a JSON object with the given member texts *)
ObjectText(members) == <<LBRACE>> \o JoinWith(members, <<COMMA>>) \o <<RBRACE>>

MemberText(k, valueText) == EncodeString(k) \o <<COLON>> \o valueText

Hi == Str(<<"h", "i">>)

RECURSIVE Repeat(_, _)
Repeat(c, n) == IF n = 0 THEN <<>> ELSE <<c>> \o Repeat(c, n - 1)

(* n arrays, each the only element of the one around it *)
Nested(n) == Repeat(LBRACKET, n) \o Repeat(RBRACKET, n)

(* an object with a float half way between two doubles and, one level     *)
(* beyond MaxDepth, an empty array                                         *)
DeepObject == Str(<<"{", "\"", "s", "\"", ":", "9", "0", "0", "7", "1",
                    "9", "9", "2", "5", "4", "7", "4", "0", "9", "9", "3",
                    ".", "0", ",", "\"", "a", "\"", ":">>) \o Nested(MaxDepth) \o <<RBRACE>>

(* the model and system members of a payload: both absent, an empty model *)
(* beside a system text, a model beside an empty system text              *)
RequestFields ==
    { <<>>,
      <<MemberText(K_model, EncodeString(<<>>)),
        MemberText(K_system, EncodeString(Str(<<"s">>)))>>,
      <<MemberText(K_model, EncodeString(Str(<<"m">>))),
        MemberText(K_system, EncodeString(<<>>))>> }

PromptFields ==
    { <<>>,
      <<MemberText(K_prompt, EncodeString(<<>>))>>,
      <<MemberText(K_prompt, EncodeString(Hi))>>,
      <<MemberText(K_prompt, Str(<<"n", "u", "l", "l">>))>>,
      <<MemberText(K_prompt, Str(<<"0">>))>>,
      <<MemberText(K_prompt, Str(<<"-", "1", "e", "-", "4", "0", "0">>))>>,
      <<MemberText(K_prompt, EncodeString(Hi)),
        MemberText(K_prompt, EncodeString(<<>>))>> }

ObjectInputs ==
    { ObjectText(f \o p) : f \in RequestFields, p \in PromptFields }

NonObjectInputs ==
    { Str(<<"[", "]">>),
      Nested(MaxDepth + 1),
      Str(<<"1">>),
      Str(<<"0">>),
      Str(<<"-", "1", ".", "5", "e", "3">>),
      EncodeString(Hi),
      Str(<<"n", "u", "l", "l">>),
      Str(<<"t", "r", "u", "e">>) }

InvalidInputs ==
    { Str(<<" ">>),
      Str(<<"{">>),
      Str(<<"h", "i">>),
      Str(<<"{", "\"", "p", "r", "o", "m", "p", "t", "\"", ":", "\"", "h",
            "i", "\"">>),
      Str(<<"{", "}", "x">>),
      Repeat(LBRACKET, MaxDepth + 1),
      Repeat(LBRACKET, MaxDepth - 1) \o <<LBRACE>>,
      Repeat(LBRACKET, MaxDepth - 1) \o <<DQ, Ord("a")>>,
      Str(<<"{", "\"", "p", "r", "o", "m", "p", "t", "\"", ":", "\"", "\n",
            "\"", "}">>) }

StdinInputs == {<<>>} \cup ObjectInputs \cup NonObjectInputs \cup InvalidInputs

(* os.environ.get("ANTHROPIC_API_KEY"): None when unset, else the string *)
ApiKeys == { JNull, JStr(<<>>), JStr(Str(<<"k">>)) }

NoKind == "<absent>"

(* the texts of text blocks: none; a quoted phrase between characters      *)
(* str.strip() removes, U+000B and U+00E9 in it; a nested object           *)
BlockTexts ==
    { <<>>,
      <<SPACE, DQ, 11, 233, DQ, 31>>,
      DeepObject }

Blocks ==
    { [kind |-> "text", text |-> t] : t \in BlockTexts }
    \cup { [kind |-> "tool_use", text |-> Str(<<"{", "}">>)],
           [kind |-> NoKind, text |-> Str(<<"x">>)] }

Contents == UNION { [1..n -> Blocks] : n \in 0..MaxBlocks }

Opaque(typeName) == [t |-> "opaque", v |-> typeName]

ReportedModels == { JStr(Str(<<"r">>)), Opaque(Str(<<"M", "o", "c", "k">>)) }

Responses == [model : ReportedModels, content : Contents]

(* reply texts: a core between two pieces of text over Alphabet *)
Alphabet == { LBRACE, RBRACE, SPACE }

Affixes == UNION { [1..n -> Alphabet] : n \in 0..MaxLen }

Cores ==
    { <<>>,
      Str(<<"{", "}">>),
      Str(<<"\"", "a", "\"", ":", "1">>),
      Str(<<"x", "{", "\"", "a", "\"", ":", "\"", "}", "\"", "}", "x">>),
      Str(<<"x">>),
      Str(<<"{", "}", "\n", "{", "}">>),
      <<160, LBRACE, RBRACE, 31>>,
      DeepObject }

Texts == { a \o c \o b : a \in Affixes, c \in Cores, b \in Affixes }

-----------------------------------------------------------------------------
(* Exceptions: the type, str() of the exception, and the function it was   *)
(* raised in                                                               *)

NoExc == [type |-> "none", msg |-> <<>>, origin |-> ""]

Raise(type, msg, origin) == [type |-> type, msg |-> msg, origin |-> origin]

ENV_NAME == Str(<<"A", "N", "T", "H", "R", "O", "P", "I", "C", "_", "A",
                  "P", "I", "_", "K", "E", "Y">>)

(* RuntimeError(f"Failed to decode payload: {exc}") *)
DecodeError(detail) ==
    Raise("RuntimeError", Str(<<"F", "a", "i", "l", "e", "d", " ", "t",
                                "o", " ", "d", "e", "c", "o", "d", "e",
                                " ", "p", "a", "y", "l", "o", "a", "d",
                                ":", " ">>) \o detail,
          "read_payload")

CredentialError ==
    Raise("RuntimeError", ENV_NAME \o Str(<<" ", "e", "n", "v", "i", "r",
                                            "o", "n", "m", "e", "n", "t",
                                            " ", "v", "a", "r", "i", "a",
                                            "b", "l", "e", " ", "i", "s",
                                            " ", "r", "e", "q", "u", "i",
                                            "r", "e", "d">>),
          "main")

DependencyError ==
    Raise("RuntimeError",
          Str(<<"a", "n", "t", "h", "r", "o", "p", "i", "c", " ", "p", "a",
                "c", "k", "a", "g", "e", " ", "i", "s", " ", "r", "e", "q",
                "u", "i", "r", "e", "d", ".", " ", "I", "n", "s", "t", "a",
                "l", "l", " ", "v", "i", "a", " ">>)
          \o <<BACKQUOTE>> \o Str(<<"p", "i", "p", " ", "i", "n", "s", "t",
                                    "a", "l", "l", " ", "a", "n", "t", "h",
                                    "r", "o", "p", "i", "c">>) \o <<BACKQUOTE>>
          \o <<DOT>>,
          "main")

PromptError == Raise("RuntimeError", Str(<<"p", "r", "o", "m", "p", "t",
                                           " ", "i", "s", " ", "r", "e",
                                           "q", "u", "i", "r", "e", "d",
                                           " ", "i", "n", " ", "p", "a",
                                           "y", "l", "o", "a", "d">>), "main")

PyTypeName(x) ==
    CASE x.t = "arr" -> Str(<<"l", "i", "s", "t">>)
      [] x.t = "str" -> Str(<<"s", "t", "r">>)
      [] x.t = "int" -> Str(<<"i", "n", "t">>)
      [] x.t = "float" -> Str(<<"f", "l", "o", "a", "t">>)
      [] x.t = "bool" -> Str(<<"b", "o", "o", "l">>)
      [] x.t = "null" -> Str(<<"N", "o", "n", "e", "T", "y", "p", "e">>)
      [] x.t = "obj" -> Str(<<"d", "i", "c", "t">>)
      [] OTHER -> x.v

NoGetError(x) ==
    Raise("AttributeError",
          <<Ord("'")>> \o PyTypeName(x) \o Str(<<"'", " ", "o", "b", "j",
                                                 "e", "c", "t", " ", "h",
                                                 "a", "s", " ", "n", "o",
                                                 " ", "a", "t", "t", "r",
                                                 "i", "b", "u", "t", "e",
                                                 " ", "'", "g", "e", "t",
                                                 "'">>),
          "main")

SerializeError(typeName) ==
    Raise("TypeError",
          Str(<<"O", "b", "j", "e", "c", "t", " ", "o", "f", " ", "t", "y",
                "p", "e", " ">>) \o typeName \o Str(<<
                                                                                                                                  " ",
                                                                                                                                  "i",
                                                                                                                                  "s",
                                                                                                                                  " ",
                                                                                                                                  "n",
                                                                                                                                  "o",
                                                                                                                                  "t",
                                                                                                                                  " ",
                                                                                                                                  "J",
                                                                                                                                  "S",
                                                                                                                                  "O",
                                                                                                                                  "N",
                                                                                                                                  " ",
                                                                                                                                  "s",
                                                                                                                                  "e",
                                                                                                                                  "r",
                                                                                                                                  "i",
                                                                                                                                  "a",
                                                                                                                                  "l",
                                                                                                                                  "i",
                                                                                                                                  "z",
                                                                                                                                  "a",
                                                                                                                                  "b",
                                                                                                                                  "l",
                                                                                                                                  "e">>),
          "json.dumps")

(* exceptions the remote call raises; str() of an exception is whatever    *)
(* its raiser put there, a text of several lines included                  *)
ProviderErrors ==
    { Raise("APIConnectionError", Str(<<"C", "o", "n", "n", "e", "c", "t",
                                        "i", "o", "n", " ", "e", "r", "r",
                                        "o", "r", ".">>), "messages.create"),
      Raise("AuthenticationError", Str(<<"i", "n", "v", "a", "l", "i", "d",
                                         " ", "x", "-", "a", "p", "i", "-",
                                         "k", "e", "y">>), "messages.create"),
      Raise("APIStatusError", Str(<<"E", "r", "r", "o", "r", " ", "c", "o",
                                    "d", "e", ":", " ", "5", "2", "9",
                                    "\n", "o", "v", "e", "r", "l", "o",
                                    "a", "d", "e", "d">>),
            "messages.create") }

-----------------------------------------------------------------------------
(* The run of the bridge *)

NoRequest == [model |-> JNull, system |-> JNull, prompt |-> JNull]

NoResponse == [model |-> JNull, content |-> <<>>]

Running == -1

Init ==
    /\ pc = "read_payload"
    /\ stdin \in StdinInputs
    /\ api_key \in ApiKeys
    /\ importable \in BOOLEAN
    /\ recursion_limit \in RecursionLimits
    /\ payload = JNull
    /\ request = NoRequest
    /\ calls = <<>>
    /\ response = NoResponse
    /\ text = <<>>
    /\ annotation = JNull
    /\ stdout = <<>>
    /\ stderr = <<>>
    /\ exit_status = Running
    /\ exc = NoExc

(* x or y *)
Or(x, y) == IF Truthy(x) THEN x ELSE y

(* mutant: no special case for empty input *)
read_payload_no_default ==
    /\ pc = "read_payload"
    /\ LET r == JsonLoads(stdin, JsonRoom(recursion_limit)) IN
       IF r.ok
       THEN payload' = r.v /\ pc' = "api_key" /\ exc' = exc
       ELSE IF r.err = "JSONDecodeError"
            THEN payload' = payload /\ pc' = "except"
                 /\ exc' = DecodeError(r.msg)
            ELSE payload' = payload /\ pc' = "except"
                 /\ exc' = Raise(r.err, r.msg, "read_payload")
    /\ UNCHANGED <<stdin, api_key, importable, recursion_limit, request,
                   calls, response, text, annotation, stdout, stderr,
                   exit_status>>

(* read_payload(): only json.JSONDecodeError is turned into the            *)
(* RuntimeError, another exception of json.loads leaves as it is           *)
read_payload ==
    /\ pc = "read_payload"
    /\ LET r == JsonLoads(stdin, JsonRoom(recursion_limit)) IN
       IF stdin = <<>>
       THEN payload' = EmptyDict /\ pc' = "api_key" /\ exc' = exc
       ELSE IF r.ok
            THEN payload' = r.v /\ pc' = "api_key" /\ exc' = exc
       ELSE IF r.err = "JSONDecodeError"
            THEN payload' = payload /\ pc' = "except"
                 /\ exc' = DecodeError(r.msg)
            ELSE payload' = payload /\ pc' = "except"
                 /\ exc' = Raise(r.err, r.msg, "read_payload")
    /\ UNCHANGED <<stdin, api_key, importable, recursion_limit, request,
                   calls, response, text, annotation, stdout, stderr,
                   exit_status>>

(* mutant: only an unset credential is refused, an empty one passes *)
check_api_key_unset_only ==
    /\ pc = "api_key"
    /\ IF api_key = JNull
       THEN pc' = "except" /\ exc' = CredentialError
       ELSE pc' = "import" /\ exc' = exc
    /\ UNCHANGED <<stdin, api_key, importable, recursion_limit, payload,
                   request, calls, response, text, annotation, stdout,
                   stderr, exit_status>>

(* the credential check *)
check_api_key ==
    /\ pc = "api_key"
    /\ IF ~Truthy(api_key)
       THEN pc' = "except" /\ exc' = CredentialError
       ELSE pc' = "import" /\ exc' = exc
    /\ UNCHANGED <<stdin, api_key, importable, recursion_limit, payload,
                   request, calls, response, text, annotation, stdout,
                   stderr, exit_status>>

(* from anthropic import Anthropic; client = Anthropic(api_key=api_key):  *)
(* the import fails or succeeds; the constructor is given the non-empty    *)
(* key, keeps it and returns the client                                    *)
import_client ==
    /\ pc = "import"
    /\ IF ~importable
       THEN pc' = "except" /\ exc' = DependencyError
       ELSE pc' = "resolve" /\ exc' = exc
    /\ UNCHANGED <<stdin, api_key, importable, recursion_limit, payload,
                   request, calls, response, text, annotation, stdout,
                   stderr, exit_status>>

(* mutant: the defaults apply to absent keys only, payload.get(key, default) *)
resolve_request_absent_only ==
    /\ pc = "resolve"
    /\ IF payload.t # "obj"
       THEN pc' = "except" /\ exc' = NoGetError(payload) /\ request' = request
       ELSE LET model == IF HasKey(payload, K_model)
                         THEN DictGet(payload, K_model) ELSE JStr(DefaultModel)
                system == IF HasKey(payload, K_system)
                          THEN DictGet(payload, K_system)
                          ELSE JStr(DefaultSystem)
                prompt == DictGet(payload, K_prompt)
            IN IF ~Truthy(prompt)
               THEN /\ pc' = "except"
                    /\ exc' = PromptError
                    /\ request' = request
               ELSE /\ pc' = "call"
                    /\ exc' = exc
                    /\ request' = [model |-> model, system |-> system,
                                   prompt |-> prompt]
    /\ UNCHANGED <<stdin, api_key, importable, recursion_limit, payload,
                   calls, response, text, annotation, stdout, stderr,
                   exit_status>>

(* model, system and prompt from the payload *)
resolve_request ==
    /\ pc = "resolve"
    /\ IF payload.t # "obj"
       THEN pc' = "except" /\ exc' = NoGetError(payload) /\ request' = request
       ELSE LET model == Or(DictGet(payload, K_model), JStr(DefaultModel))
                system == Or(DictGet(payload, K_system), JStr(DefaultSystem))
                prompt == DictGet(payload, K_prompt)
            IN IF ~Truthy(prompt)
               THEN /\ pc' = "except"
                    /\ exc' = PromptError
                    /\ request' = request
               ELSE /\ pc' = "call"
                    /\ exc' = exc
                    /\ request' = [model |-> model, system |-> system,
                                   prompt |-> prompt]
    /\ UNCHANGED <<stdin, api_key, importable, recursion_limit, payload,
                   calls, response, text, annotation, stdout, stderr,
                   exit_status>>

(* the keyword arguments of client.messages.create *)
CallArgs(req) ==
    [model |-> req.model,
     max_output_tokens |-> MaxOutputTokens,
     temperature |-> Temperature,
     system |-> req.system,
     messages |-> <<[role |-> "user", content |-> req.prompt]>>]

(* mutant: a failed call is retried once *)
messages_create_retry ==
    /\ pc = "call"
    /\ \/ \E r \in Responses :
            /\ calls' = Append(calls, CallArgs(request))
            /\ response' = r /\ pc' = "extract" /\ exc' = exc
       \/ \E e \in ProviderErrors :
            /\ calls' = calls \o <<CallArgs(request), CallArgs(request)>>
            /\ response' = response /\ pc' = "except" /\ exc' = e
    /\ UNCHANGED <<stdin, api_key, importable, recursion_limit, payload,
                   request, text, annotation, stdout, stderr, exit_status>>

(* client.messages.create(...): the capability answers or raises *)
messages_create ==
    /\ pc = "call"
    /\ calls' = Append(calls, CallArgs(request))
    /\ \/ \E r \in Responses :
            response' = r /\ pc' = "extract" /\ exc' = exc
       \/ \E e \in ProviderErrors :
            response' = response /\ pc' = "except" /\ exc' = e
    /\ UNCHANGED <<stdin, api_key, importable, recursion_limit, payload,
                   request, text, annotation, stdout, stderr, exit_status>>

(* mutant: a block with no type counts as text *)
BlockTypeDefaultText(b) == IF b.kind = NoKind THEN "text" ELSE b.kind

(* getattr(block, "type", "") *)
BlockType(b) == IF b.kind = NoKind THEN "" ELSE b.kind

(* the texts of the blocks whose type is "text", in order *)
RECURSIVE TextParts(_)
TextParts(content) ==
    IF content = <<>> THEN <<>>
    ELSE IF BlockType(Head(content)) = "text"
         THEN <<Head(content).text>> \o TextParts(Tail(content))
         ELSE TextParts(Tail(content))

ReplyText(content) == JoinWith(TextParts(content), <<NL>>)

(* the text blocks joined and given to the extractor, whose exception      *)
(* leaves main                                                             *)
extract_annotation ==
    /\ pc = "extract"
    /\ text' = ReplyText(response.content)
    /\ LET r == extract_json_from_text(text', JsonRoom(recursion_limit)) IN
       IF r.ok
       THEN annotation' = r.v /\ pc' = "output" /\ exc' = exc
       ELSE /\ annotation' = annotation
            /\ pc' = "except"
            /\ exc' = Raise(r.err, r.msg, "extract_json_from_text")
    /\ UNCHANGED <<stdin, api_key, importable, recursion_limit, payload,
                   request, calls, response, stdout, stderr, exit_status>>

Output(ann, model) ==
    JObj(<<[k |-> K_annotation, v |-> ann], [k |-> K_model, v |-> model]>>)

(* mutant: the model written is the requested one *)
write_output_requested_model ==
    /\ pc = "output"
    /\ LET d == JsonDumps(Output(annotation, request.model)) IN
       IF d.ok
       THEN /\ stdout' = Append(stdout, d.s)
            /\ pc' = "exited"
            /\ exit_status' = 0
            /\ exc' = exc
       ELSE /\ stdout' = stdout
            /\ pc' = "except"
            /\ exit_status' = exit_status
            /\ exc' = SerializeError(d.s)
    /\ UNCHANGED <<stdin, api_key, importable, recursion_limit, payload,
                   request, calls, response, text, annotation, stderr>>

(* sys.stdout.write(json.dumps(output)), then the normal exit *)
write_output ==
    /\ pc = "output"
    /\ LET d == JsonDumps(Output(annotation, response.model)) IN
       IF d.ok
       THEN /\ stdout' = Append(stdout, d.s)
            /\ pc' = "exited"
            /\ exit_status' = 0
            /\ exc' = exc
       ELSE /\ stdout' = stdout
            /\ pc' = "except"
            /\ exit_status' = exit_status
            /\ exc' = SerializeError(d.s)
    /\ UNCHANGED <<stdin, api_key, importable, recursion_limit, payload,
                   request, calls, response, text, annotation, stderr>>

DiagnosticLine(msg) == Str(<<"C", "l", "a", "u", "d", "e", " ", "b", "r",
                             "i", "d", "g", "e", " ", "f", "a", "i", "l",
                             "e", "d", ":", " ">>) \o msg \o <<NL>>

(* except Exception as exc: the diagnostic line and sys.exit(1) *)
handle_exception ==
    /\ pc = "except"
    /\ stderr' = Append(stderr, DiagnosticLine(exc.msg))
    /\ exit_status' = 1
    /\ pc' = "exited"
    /\ UNCHANGED <<stdin, api_key, importable, recursion_limit, payload,
                   request, calls, response, text, annotation, stdout, exc>>

Next ==
    \/ read_payload
    \/ check_api_key
    \/ import_client
    \/ resolve_request
    \/ messages_create
    \/ extract_annotation
    \/ write_output
    \/ handle_exception

Spec == Init /\ [][Next]_vars

-----------------------------------------------------------------------------
(* The extractor on every reply text of Texts: the run resumed where the   *)
(* capability has answered with one text block.                            *)

HiPayload == JObj(<<[k |-> K_prompt, v |-> JStr(Hi)]>>)

HiRequest ==
    [model |-> JStr(DefaultModel), system |-> JStr(DefaultSystem),
     prompt |-> JStr(Hi)]

ExtractInit ==
    /\ pc = "extract"
    /\ stdin = ObjectText(<<MemberText(K_prompt, EncodeString(Hi))>>)
    /\ api_key = JStr(Str(<<"k">>))
    /\ importable = TRUE
    /\ recursion_limit \in RecursionLimits
    /\ payload = HiPayload
    /\ request = HiRequest
    /\ calls = <<CallArgs(HiRequest)>>
    /\ \E t \in Texts :
         response = [model |-> JStr(Str(<<"m">>)),
                     content |-> <<[kind |-> "text", text |-> t]>>]
    /\ text = <<>>
    /\ annotation = JNull
    /\ stdout = <<>>
    /\ stderr = <<>>
    /\ exit_status = Running
    /\ exc = NoExc

ExtractNext == extract_annotation \/ write_output \/ handle_exception

ExtractSpec == ExtractInit /\ [][ExtractNext]_vars

-----------------------------------------------------------------------------
(* Vocabulary of the properties *)

Exited == pc = "exited"

Succeeded == pc = "exited" /\ exit_status = 0

Failed == pc = "exited" /\ exit_status = 1

(* the JSON reading of s, with room for any nesting s can hold *)
JsonRead(s) == JsonLoads(s, Len(s))

(* json.loads of the run returns for standard input, or is not called *)
Decodes(raw) == raw = <<>> \/ JsonLoads(raw, JsonRoom(recursion_limit)).ok

Decoded(raw) ==
    IF raw = <<>> THEN EmptyDict
    ELSE JsonLoads(raw, JsonRoom(recursion_limit)).v

(* every check before the remote call passes on the inputs of the run *)
ChecksPass ==
    /\ Decodes(stdin)
    /\ Truthy(api_key)
    /\ importable
    /\ Decoded(stdin).t = "obj"
    /\ Truthy(DictGet(Decoded(stdin), K_prompt))

(* w occurs in s *)
Contains(s, w) == \E i \in 1..(Len(s) - Len(w) + 1) : StartsWith(s, i, w)

Positions(s, c) == { i \in 1..Len(s) : s[i] = c }

(* the annotation of the JSON object written to standard output *)
WrittenAnnotation == DictGet(JsonRead(stdout[1]).v, K_annotation)

ProviderErrorTypes == { e.type : e \in ProviderErrors }

(* the payload decode failure of read_payload *)
IsDecodeFailure(e) ==
    /\ e.type = "RuntimeError"
    /\ StartsWith(e.msg, 1, Str(<<"F", "a", "i", "l", "e", "d", " ", "t",
                                  "o", " ", "d", "e", "c", "o", "d", "e",
                                  " ", "p", "a", "y", "l", "o", "a", "d",
                                  ":", " ">>))

(* the deepest nesting of brackets in s, none of them in a string *)
NestingDepth(s) ==
    LET level(i) ==
            Cardinality({ k \in 1..i : s[k] \in {LBRACE, LBRACKET} })
            - Cardinality({ k \in 1..i : s[k] \in {RBRACE, RBRACKET} })
    IN SetMax({0} \cup { level(i) : i \in 1..Len(s) })

-----------------------------------------------------------------------------
(* C1 as stated: a run ends either in success (status 0, the whole JSON    *)
(* result on standard output, nothing on the diagnostic stream) or in      *)
(* failure (status 1, nothing on standard output, exactly one line         *)
(* "Claude bridge failed: <message>" on the diagnostic stream), whichever  *)
(* stage fails; nothing is written before the run ends.                    *)
C1_TwoOutcomes ==
    /\ pc # "exited" => stdout = <<>> /\ stderr = <<>> /\ exit_status = Running
    /\ pc = "exited" =>
         \/ /\ exit_status = 0
            /\ exc = NoExc
            /\ stderr = <<>>
            /\ Len(stdout) = 1
            /\ JsonRead(stdout[1]).ok
            /\ JsonRead(stdout[1]).v = Output(annotation, response.model)
         \/ /\ exit_status = 1
            /\ exc # NoExc
            /\ stdout = <<>>
            /\ Len(stderr) = 1
            /\ StartsWith(stderr[1], 1, Str(<<"C", "l", "a", "u", "d", "e",
                                              " ", "b", "r", "i", "d", "g",
                                              "e", " ", "f", "a", "i", "l",
                                              "e", "d", ":", " ">>))
            /\ stderr[1] = Str(<<"C", "l", "a", "u", "d", "e", " ", "b",
                                 "r", "i", "d", "g", "e", " ", "f", "a",
                                 "i", "l", "e", "d", ":", " ">>) \o exc.msg \o <<NL>>
            /\ \A i \in 1..(Len(stderr[1]) - 1) : stderr[1][i] # NL

(* C2 as stated: every invocation performs exactly one outbound call *)
C2_ExactlyOneCallAlways == pc = "exited" => Len(calls) = 1

(* C2: an invocation performs at most one outbound call: exactly one when  *)
(* every check before the call passes, none otherwise; a failed call is    *)
(* not repeated and ends the invocation in failure.                        *)
C2_AtMostOneCall ==
    /\ Len(calls) <= 1
    /\ pc = "exited" => (Len(calls) = 1 <=> ChecksPass)
    /\ exc.type \in ProviderErrorTypes =>
         /\ Len(calls) = 1
         /\ pc \in {"except", "exited"}
         /\ response = NoResponse
         /\ stdout = <<>>
         /\ pc = "exited" => exit_status = 1

C2_Witness == Failed /\ exc.type \in ProviderErrorTypes /\ Len(calls) = 1

(* C3 as stated: empty standard input fails with the missing-prompt error *)
C3_EmptyInputMissingPrompt ==
    pc = "exited" /\ stdin = <<>> => exit_status = 1 /\ exc = PromptError

(* C3: with empty standard input the payload is the empty mapping and the  *)
(* run fails with status 1 and no remote call; the error is the            *)
(* missing-prompt error when the credential is set and the client library  *)
(* imports, and the error of the first of those two checks that fails      *)
(* otherwise.                                                              *)
C3_EmptyInput ==
    pc = "exited" /\ stdin = <<>> =>
        /\ payload = EmptyDict
        /\ exit_status = 1
        /\ calls = <<>>
        /\ exc = IF ~Truthy(api_key) THEN CredentialError
                 ELSE IF ~importable THEN DependencyError
                 ELSE PromptError
        /\ stderr = <<DiagnosticLine(exc.msg)>>

C3_Witness ==
    /\ Failed
    /\ stdin = <<>>
    /\ stderr = <<Str(<<"C", "l", "a", "u", "d", "e", " ", "b", "r", "i",
                        "d", "g", "e", " ", "f", "a", "i", "l", "e", "d",
                        ":", " ", "p", "r", "o", "m", "p", "t", " ", "i",
                        "s", " ", "r", "e", "q", "u", "i", "r", "e", "d",
                        " ", "i", "n", " ", "p", "a", "y", "l", "o", "a",
                        "d", "\n">>)>>

(* C4: when the payload decodes and ANTHROPIC_API_KEY is absent or empty,  *)
(* the run fails with status 1, the diagnostic message contains the        *)
(* variable's name, and no remote call is made.                            *)
C4_MissingCredential ==
    Decodes(stdin) /\ ~Truthy(api_key) =>
        /\ calls = <<>>
        /\ pc = "exited" =>
             /\ exit_status = 1
             /\ Len(stderr) = 1
             /\ Contains(stderr[1], Str(<<"A", "N", "T", "H", "R", "O",
                                          "P", "I", "C", "_", "A", "P",
                                          "I", "_", "K", "E", "Y">>))

C4_Witness ==
    /\ Failed
    /\ api_key = JStr(<<>>)
    /\ Decoded(stdin).t = "obj"
    /\ DictGet(Decoded(stdin), K_prompt).t = "str"
    /\ DictGet(Decoded(stdin), K_prompt).v = Hi

(* the reply text from a to b is a well-formed JSON object *)
IsObjectAt(a, b) ==
    /\ a < b
    /\ text[a] = LBRACE
    /\ text[b] = RBRACE
    /\ JsonRead(SubSeq(text, a, b)).ok

HoldsObject == \E a, b \in 1..Len(text) : IsObjectAt(a, b)

C6_ExtractorDefinition ==
    /\ exc.origin # "extract_json_from_text"
    /\ pc = "output" =>
        LET opens == Positions(text, LBRACE)
            closes == Positions(text, RBRACE)
            solid == { i \in 1..Len(text) : text[i] \notin PyWhitespace }
            stripped == IF solid = {} THEN <<>>
                        ELSE SubSeq(text, SetMin(solid), SetMax(solid))
            fallback == JObj(<<[k |-> K_reasoning, v |-> JStr(stripped)]>>)
        IN IF text = <<>> THEN annotation = EmptyDict
           ELSE IF opens = {} \/ closes = {} \/ SetMax(closes) <= SetMin(opens)
                THEN annotation = fallback
           ELSE LET r == JsonRead(SubSeq(text, SetMin(opens), SetMax(closes)))
                IN IF r.ok THEN annotation = r.v ELSE annotation = fallback

(* C7: whenever the remote call is issued the credential is non-empty and  *)
(* the payload's prompt is present and truthy; the call carries the        *)
(* payload's model if present and non-empty, else the default model; the   *)
(* payload's system text if present and non-empty, else the default        *)
(* instruction; exactly one user message whose content is the prompt;      *)
(* temperature 0 and maximum output size 400.  A missing or falsy prompt   *)
(* never reaches the call and fails with the missing-prompt error once the *)
(* credential and import checks have passed.                               *)
C7_CallArguments ==
    /\ calls # <<>> =>
         /\ api_key.t = "str" /\ Len(api_key.v) > 0
         /\ payload.t = "obj"
         /\ HasKey(payload, K_prompt)
         /\ Truthy(DictGet(payload, K_prompt))
         /\ calls[1].model =
              IF HasKey(payload, K_model) /\ Truthy(DictGet(payload, K_model))
              THEN DictGet(payload, K_model) ELSE JStr(DefaultModel)
         /\ calls[1].system =
              IF HasKey(payload, K_system) /\ Truthy(DictGet(payload, K_system))
              THEN DictGet(payload, K_system) ELSE JStr(DefaultSystem)
         /\ Len(calls[1].messages) = 1
         /\ calls[1].messages[1].role = "user"
         /\ calls[1].messages[1].content = DictGet(payload, K_prompt)
         /\ calls[1].temperature = 0
         /\ calls[1].max_output_tokens = 400
    /\ ( /\ pc = "exited"
         /\ Decodes(stdin)
         /\ Decoded(stdin).t = "obj"
         /\ ~Truthy(DictGet(Decoded(stdin), K_prompt))
         /\ Truthy(api_key)
         /\ importable )
       => exc = PromptError /\ calls = <<>> /\ exit_status = 1

(* a call issued for a payload whose model is present but empty *)
C7_Witness ==
    /\ calls # <<>>
    /\ HasKey(payload, K_model)
    /\ DictGet(payload, K_model) = JStr(<<>>)
    /\ DictGet(payload, K_system) = JStr(Str(<<"s">>))

(* C8: on success the written output parses as a JSON object with exactly  *)
(* the keys annotation and model; model is the identifier the response     *)
(* reported and annotation is the extractor's result, both unchanged by    *)
(* the serialise-and-parse round trip.                                     *)
C8_OutputRoundTrip ==
    Succeeded =>
        /\ Len(stdout) = 1
        /\ LET o == JsonRead(stdout[1]) IN
           /\ o.ok
           /\ o.v.t = "obj"
           /\ Len(o.v.v) = 2
           /\ { o.v.v[i].k : i \in 1..2 } = { K_annotation, K_model }
           /\ DictGet(o.v, K_model) = response.model
           /\ DictGet(o.v, K_annotation) = annotation
           /\ annotation =
                extract_json_from_text(text, JsonRoom(recursion_limit)).v

(* the reported model differs from the requested one, and the annotation   *)
(* is a reasoning text whose quotes, U+000B and U+00E9 are written escaped *)
C8_Witness ==
    /\ Succeeded
    /\ response.model # calls[1].model
    /\ annotation = JObj(<<[k |-> K_reasoning, v |-> JStr(<<DQ, 11, 233, DQ>>)]>>)
    /\ Contains(stdout[1], Str(<<"\"", "\\", "\"", "\\", "u", "0", "0",
                                 "0", "b", "\\", "u", "0", "0", "e", "9",
                                 "\\", "\"", "\"">>))

IsTextBlock(b) == b.kind = "text"

RECURSIVE NewlineJoined(_)
NewlineJoined(blocks) ==
    IF blocks = <<>> THEN <<>>
    ELSE IF Len(blocks) = 1 THEN blocks[1].text
    ELSE blocks[1].text \o <<NL>> \o NewlineJoined(Tail(blocks))

(* C9: the text given to the extractor is the texts of the blocks of kind  *)
(* "text", in response order, joined by single newlines; other blocks      *)
(* contribute nothing.  A response with no text block, or with a single    *)
(* text block of empty text, gives annotation {} and the run succeeds.     *)
C9_ReplyText ==
    /\ pc \in {"output", "exited"} /\ response # NoResponse =>
         text = NewlineJoined(SelectSeq(response.content, IsTextBlock))
    /\ pc = "output" =>
         annotation = extract_json_from_text(text, JsonRoom(recursion_limit)).v
    /\ ( /\ pc = "exited"
         /\ response # NoResponse
         /\ response.model.t = "str"
         /\ LET tb == SelectSeq(response.content, IsTextBlock) IN
            tb = <<>> \/ (Len(tb) = 1 /\ tb[1].text = <<>>) )
       => /\ exit_status = 0
          /\ annotation = EmptyDict
          /\ WrittenAnnotation = EmptyDict

(* two text blocks around a block of another kind *)
C9_Witness ==
    /\ pc = "output"
    /\ Len(response.content) = 3
    /\ response.content[1].kind = "text" /\ response.content[1].text # <<>>
    /\ response.content[2].kind # "text"
    /\ response.content[3].kind = "text" /\ response.content[3].text # <<>>
    /\ annotation.t = "obj"
    /\ ~HasKey(annotation, K_reasoning)

(* C10 as stated: the checks run in the order payload decode, credential,  *)
(* client import, prompt, remote call, and the failure reported is that of *)
(* the first check that fails: non-empty invalid JSON is a decode failure  *)
(* even with the credential unset; a missing prompt (empty input included) *)
(* is a missing-credential failure when the credential is unset; valid     *)
(* JSON that is not an object is no decode failure and fails at the model  *)
(* lookup, after the credential and import checks, with status 1 and no    *)
(* remote call.                                                            *)
C10_CheckOrder ==
    pc = "exited" =>
        LET r == JsonRead(stdin)
            value == IF stdin = <<>> THEN EmptyDict ELSE r.v
        IN IF stdin # <<>> /\ ~r.ok
           THEN IsDecodeFailure(exc) /\ calls = <<>>
           ELSE IF ~Truthy(api_key) THEN exc = CredentialError /\ calls = <<>>
           ELSE IF ~importable THEN exc = DependencyError /\ calls = <<>>
           ELSE IF value.t # "obj"
                THEN /\ ~IsDecodeFailure(exc)
                     /\ exc = NoGetError(value)
                     /\ calls = <<>>
                     /\ exit_status = 1
           ELSE IF ~Truthy(DictGet(value, K_prompt))
                THEN exc = PromptError /\ calls = <<>>
           ELSE Len(calls) = 1

====
